---- MODULE Spec2Model ----
(***************************************************************************)
(* Keyboard tele-operation of a DJI Tello: FlightControl.py and the        *)
(* polling loop of main.py.                                                *)
(*                                                                         *)
(* Time is counted in milliseconds.  A device or file call is a record     *)
(* [op, args]; the calls of the current loop iteration (or of the current  *)
(* direct method call) are kept, in order, in `calls`.                     *)
(***************************************************************************)
EXTENDS Integers, Sequences, FiniteSets, TLC

VARIABLES
    pc,                    \* position of the single control thread
    ret,                   \* return addresses of the calls in progress
    ticks,                 \* loop iterations (or direct calls) so far
    now,                   \* time.time() of the latest reading, in ms
    ActionStack,           \* self.ActionStack: <<key, timestamp>> records
    validLog,              \* valid_command of calculateAction, per record
    valid_command,         \* valid_command of the latest calculateAction
    key,                   \* the command given to the latest calculateAction
    tello,                 \* the velocity attributes kept on self.tello
    snapOrdered,           \* self.snapOrdered
    panoramaOrdered,       \* self.panoramaOrdered
    panoramaDeg,           \* self.panoramaDeg
    totalPanoramaCaptures, \* self.totalPanoramaCaptures
    HeavyMode,             \* self.HeavyMode
    called,                \* the method the driver called last
    degree,                \* capturePanorama: degree
    pano_n,                \* capturePanorama_: n
    pano_deg,              \* capturePanorama_: deg_to_rotate
    pano_i,                \* capturePanorama_: loop iterations done
    calls,                 \* device and file calls of the current iteration
    sent,                  \* arguments of the latest send_rc_control
    failed                 \* the device rejected a rotation of this iteration

vars == <<pc, ret, called, degree, ticks, now, ActionStack, validLog, valid_command,
          key, tello,
          snapOrdered, panoramaOrdered, panoramaDeg, totalPanoramaCaptures,
          HeavyMode, pano_n, pano_deg, pano_i, calls, sent, failed>>

flagVars == <<snapOrdered, panoramaOrdered, panoramaDeg, totalPanoramaCaptures,
              HeavyMode, degree>>
panoVars == <<pano_n, pano_deg, pano_i>>
logVars == <<ActionStack, validLog, valid_command, key>>

----------------------------------------------------------------------------
(* Bounds of the model. *)

\* loop iterations of main.py explored
MaxTicks == 3
\* direct method calls explored by the method-level driver
MaxCalls == 2
\* largest n given directly to capturePanorama_
MaxN == 3
\* the largest panoramaDeg and the largest FOV given to the count of captures
MaxDegrees == 24
MaxFOV == 6

\* time between two readings of the clock in consecutive iterations (ms)
Deltas == {100, 200}
\* per-step angles given directly to capturePanorama_
StepAngles == {30, 45}
\* arguments given directly to capturePanorama
Degrees == {"C", "O", "X"}

----------------------------------------------------------------------------
(* Program constants. *)

\* self.timeDifference = 0.2 (seconds)
timeDifference == 200
\* self.FOV
FOV == 30
\* the magnitude of a single-axis velocity command
Velocity == 60

None == "None"
commands == <<"up", "down", "a", "d", "w", "z", "left", "right", "p", "c">>

\* what cv2.waitKey(1) may return: no key in the window (-1), a key code 0
WaitKeys == {-1, 0}
\* the sets of keys keyboard.is_pressed may report down during one iteration
PressedSets ==
    {{}} \cup {{commands[i]} : i \in 1..Len(commands)}
         \cup {{"s"}, {"q"}, {"o"}, {"w", "a"}, {"s", "c"}}

----------------------------------------------------------------------------
(* Calls on the device and on the file system. *)

Call(op, args) == [op |-> op, args |-> args, folder |-> ""]
Sleep(ms) == Call("sleep", <<ms>>)
Imwrite(folderName) == [op |-> "imwrite", args |-> <<>>, folder |-> folderName]
\* the attribute writes of setAllVelocity(val), kept in order with the calls
SetAll(val) == Call("setAllVelocity", <<val>>)

RECURSIVE SleepTotal(_)
SleepTotal(s) ==
    IF s = <<>> THEN 0
    ELSE (IF Head(s).op = "sleep" THEN Head(s).args[1] ELSE 0) + SleepTotal(Tail(s))


----------------------------------------------------------------------------
(* FlightControl: the methods as functions of the state they read. *)

setAllVelocity(val, t) ==
    [front_back_velocity |-> 0, left_right_velocity |-> 0,
     up_down_velocity |-> 0, yaw_velocity |-> 0, speed |-> 0]

\* the first pressed key of `commands`, in list order
RECURSIVE firstPressed(_, _)
firstPressed(i, pressed) ==
    IF i > Len(commands) THEN None
    ELSE IF commands[i] \in pressed THEN commands[i]
    ELSE firstPressed(i + 1, pressed)

\* cv2.waitKey(1) & keyboard.is_pressed("s"): the low bit of the key code
getKeyboardInput(wk, pressed) ==
    IF (wk % 2 = 1) /\ ("s" \in pressed) THEN "s"
    ELSE firstPressed(1, pressed)

\* a log that skips a key equal to the one logged last
updateActionTrack_Distinct(k, stack, t) ==
    IF k # None /\ (stack = <<>> \/ stack[Len(stack)][1] # k)
    THEN Append(stack, <<k, t>>) ELSE stack

\* getKeyboardInput, updateActionTrack: the log after the key k is seen at t
updateActionTrack(k, stack, t) ==
    IF k # None THEN Append(stack, <<k, t>>) ELSE stack

\* checkValidCommand with the comparison of the times reversed
checkValidCommand_Reversed(command, stack) ==
    IF command = None THEN TRUE
    ELSE IF Len(stack) >= 2
         THEN LET last == stack[Len(stack)]
                  second_last == stack[Len(stack) - 1]
                  diff == last[2] - second_last[2]
              IN  ~((last[1] = second_last[1]) /\ (diff > timeDifference))
         ELSE TRUE

\* checkValidCommand with the threshold itself rejected
checkValidCommand_Inclusive(command, stack) ==
    IF command = None THEN TRUE
    ELSE IF Len(stack) >= 2
         THEN LET last == stack[Len(stack)]
                  second_last == stack[Len(stack) - 1]
                  diff == last[2] - second_last[2]
              IN  ~((last[1] = second_last[1]) /\ (diff <= timeDifference))
         ELSE TRUE

\* checkValidCommand without the comparison of the keys
checkValidCommand_AnyKey(command, stack) ==
    IF command = None THEN TRUE
    ELSE IF Len(stack) >= 2
         THEN LET last == stack[Len(stack)]
                  second_last == stack[Len(stack) - 1]
                  diff == last[2] - second_last[2]
              IN  ~(diff < timeDifference)
         ELSE TRUE

\* checkValidCommand without the case of None
checkValidCommand_NoneChecked(command, stack) ==
    IF Len(stack) >= 2
    THEN LET last == stack[Len(stack)]
             second_last == stack[Len(stack) - 1]
             diff == last[2] - second_last[2]
         IN  ~((last[1] = second_last[1]) /\ (diff < timeDifference))
    ELSE TRUE

\* checkValidCommand comparing only from the third record on
checkValidCommand_FromThird(command, stack) ==
    IF command = None THEN TRUE
    ELSE IF Len(stack) > 2
         THEN LET last == stack[Len(stack)]
                  second_last == stack[Len(stack) - 1]
                  diff == last[2] - second_last[2]
              IN  ~((last[1] = second_last[1]) /\ (diff < timeDifference))
         ELSE TRUE

checkValidCommand(command, stack) ==
    IF command = None THEN TRUE
    ELSE IF Len(stack) >= 2
         THEN LET last == stack[Len(stack)]
                  second_last == stack[Len(stack) - 1]
                  diff == last[2] - second_last[2]
              IN  ~((last[1] = second_last[1]) /\ (diff < timeDifference))
         ELSE TRUE

\* a calculateAction that clears the other axes before it sets one
commandVelocity_Exclusive(command, t) ==
    LET z == setAllVelocity(0, t)
    IN  CASE command = None    -> z
          [] command = "up"    -> [z EXCEPT !.up_down_velocity = Velocity]
          [] command = "down"  -> [z EXCEPT !.up_down_velocity = -Velocity]
          [] command = "left"  -> [z EXCEPT !.yaw_velocity = -Velocity]
          [] command = "right" -> [z EXCEPT !.yaw_velocity = Velocity]
          [] command = "a"     -> [z EXCEPT !.left_right_velocity = -Velocity]
          [] command = "d"     -> [z EXCEPT !.left_right_velocity = Velocity]
          [] command = "w"     -> [z EXCEPT !.front_back_velocity = Velocity]
          [] command = "z"     -> [z EXCEPT !.front_back_velocity = -Velocity]
          [] OTHER             -> t

\* a calculateAction whose takeoff clears the velocities
commandVelocity_TakeoffResets(command, t) ==
    CASE command \in {None, "s"} -> setAllVelocity(0, t)
      [] command = "up"    -> [t EXCEPT !.up_down_velocity = Velocity]
      [] command = "down"  -> [t EXCEPT !.up_down_velocity = -Velocity]
      [] command = "left"  -> [t EXCEPT !.yaw_velocity = -Velocity]
      [] command = "right" -> [t EXCEPT !.yaw_velocity = Velocity]
      [] command = "a"     -> [t EXCEPT !.left_right_velocity = -Velocity]
      [] command = "d"     -> [t EXCEPT !.left_right_velocity = Velocity]
      [] command = "w"     -> [t EXCEPT !.front_back_velocity = Velocity]
      [] command = "z"     -> [t EXCEPT !.front_back_velocity = -Velocity]
      [] OTHER             -> t

\* calculateAction, a valid command: the velocity attributes it leaves
commandVelocity(command, t) ==
    CASE command = None    -> setAllVelocity(0, t)
      [] command = "up"    -> [t EXCEPT !.up_down_velocity = Velocity]
      [] command = "down"  -> [t EXCEPT !.up_down_velocity = -Velocity]
      [] command = "left"  -> [t EXCEPT !.yaw_velocity = -Velocity]
      [] command = "right" -> [t EXCEPT !.yaw_velocity = Velocity]
      [] command = "a"     -> [t EXCEPT !.left_right_velocity = -Velocity]
      [] command = "d"     -> [t EXCEPT !.left_right_velocity = Velocity]
      [] command = "w"     -> [t EXCEPT !.front_back_velocity = Velocity]
      [] command = "z"     -> [t EXCEPT !.front_back_velocity = -Velocity]
      [] OTHER             -> t

\* a takeSnap that writes whatever the flag is
takeSnap_Always(ordered, folderName) == <<Imwrite(folderName)>>

\* takeSnap: the file written when a snap is ordered
takeSnap(ordered, folderName) ==
    IF ordered THEN <<Imwrite(folderName)>> ELSE <<>>

\* calculateAction, a valid command other than "c": the calls it makes
commandCalls(command) ==
    CASE command = None -> <<SetAll(0)>>
      [] command = "s"  -> <<Call("takeoff", <<>>)>>
      [] command = "p"  -> takeSnap(TRUE, "snaps")
      [] OTHER          -> <<>>

takeSnap_(folderName) == <<Imwrite(folderName), Sleep(1000)>>

\* rotate passing the negative angle on to rotate_clockwise
rotate_Unsigned(degrees) ==
    <<SetAll(0), Sleep(100),
      IF degrees >= 0 THEN Call("rotate_counter_clockwise", <<degrees>>)
                      ELSE Call("rotate_clockwise", <<degrees>>),
      Sleep(3000)>>

\* rotate: the delays and the one device call
rotate(degrees) ==
    <<SetAll(0), Sleep(100),
      IF degrees >= 0 THEN Call("rotate_counter_clockwise", <<degrees>>)
                      ELSE Call("rotate_clockwise", <<-1 * degrees>>),
      Sleep(3000)>>


\* takeAction without the test of HeavyMode
takeAction_Unguarded(land, heavy, t) ==
    IF ~land
    THEN <<Call("send_rc_control",
                <<t.left_right_velocity, t.front_back_velocity,
                  t.up_down_velocity, t.yaw_velocity>>)>>
    ELSE <<SetAll(0), Call("land", <<>>), Sleep(1000)>>

\* a takeAction that lands before it zeroes the velocities
takeAction_LandFirst(land, heavy, t) ==
    IF ~land
    THEN IF ~heavy
         THEN <<Call("send_rc_control",
                     <<t.left_right_velocity, t.front_back_velocity,
                       t.up_down_velocity, t.yaw_velocity>>)>>
         ELSE <<>>
    ELSE <<Call("land", <<>>), SetAll(0), Sleep(1000)>>

\* takeAction: the calls it makes
takeAction(land, heavy, t) ==
    IF ~land
    THEN IF ~heavy
         THEN <<Call("send_rc_control",
                     <<t.left_right_velocity, t.front_back_velocity,
                       t.up_down_velocity, t.yaw_velocity>>)>>
         ELSE <<>>
    ELSE <<SetAll(0), Call("land", <<>>), Sleep(1000)>>

\* the arguments of the latest send_rc_control after calls `cs`
RECURSIVE lastSent(_, _)
lastSent(cs, before) ==
    IF cs = <<>> THEN before
    ELSE IF cs[Len(cs)].op = "send_rc_control" THEN cs[Len(cs)].args
    ELSE lastSent(SubSeq(cs, 1, Len(cs) - 1), before)

Max(a, b) == IF a >= b THEN a ELSE b

\* capturePanorama: panoramaDeg for the argument
degreeToPanoramaDeg(dg, old) ==
    IF dg = "C" THEN 180 ELSE IF dg = "O" THEN 360 ELSE old

\* the count without the + 1
captureCount_Floor(deg, fov) == deg \div fov

\* the count that adds a capture only for a remainder
captureCount_Ceil(deg, fov) ==
    IF deg % fov = 0 THEN deg \div fov ELSE (deg \div fov) + 1

\* capturePanorama: totalPanoramaCaptures
captureCount(deg, fov) == Max(deg \div fov, (deg \div fov) + 1)

----------------------------------------------------------------------------
(* State after FlightControl() and init(). *)

InitObject ==
    /\ ret = <<>>
    /\ called = "init"
    /\ degree = None
    /\ ticks = 0
    /\ now = 0
    /\ ActionStack = <<>>
    /\ validLog = <<>>
    /\ valid_command = TRUE
    /\ key = None
    /\ tello = setAllVelocity(0, <<>>)
    /\ snapOrdered = FALSE
    /\ panoramaOrdered = FALSE
    /\ panoramaDeg = 0
    /\ totalPanoramaCaptures = 0
    /\ HeavyMode = FALSE
    /\ pano_n = 0
    /\ pano_deg = 0
    /\ pano_i = 0
    /\ calls = <<>>
    /\ sent = <<0, 0, 0, 0>>
    /\ failed = FALSE

Init == pc = "poll" /\ InitObject

\* the commands given to calculateAction when it is called directly
Commands == {commands[i] : i \in 1..Len(commands)} \cup {None, "s", "o"}

\* the object driven method by method, as a test of FlightControl would
InitAPI == pc = "test" /\ InitObject

----------------------------------------------------------------------------
(* The steps of the control thread. *)

\* capturePanorama_(deg_to_rotate, n): the first capture, up to the loop
capturePanorama_(deg_to_rotate, n, back) ==
    /\ pano_deg' = deg_to_rotate
    /\ pano_n' = n
    /\ pano_i' = 0
    /\ calls' = takeSnap_("panoramas") \o <<Sleep(200)>>
    /\ pc' = "pano"
    /\ ret' = back

\* capturePanorama(degree): the flags, the count, the call of capturePanorama_
capturePanorama(dg, back) ==
    LET deg == degreeToPanoramaDeg(dg, panoramaDeg)
        n == captureCount(deg, FOV)
    IN  /\ degree' = dg
        /\ panoramaOrdered' = TRUE
        /\ HeavyMode' = TRUE
        /\ panoramaDeg' = deg
        /\ totalPanoramaCaptures' = n
        /\ capturePanorama_(FOV, n, <<"exit">> \o back)

\* calculateAction(command) at time t, judged against the log `stack`; with
\* `flush`, takeAction() follows, as in the loop of main.py
calculateAction(command, stack, t, flush, back) ==
    LET valid == checkValidCommand(command, stack)
    IN  /\ key' = command
        /\ valid_command' = valid
        /\ failed' = FALSE
        /\ IF valid /\ command = "c"
           THEN /\ capturePanorama("C", IF flush THEN <<"flush", back>> ELSE <<back>>)
                /\ called' = "calculateAction"
                /\ now' = t + SleepTotal(calls')
                /\ UNCHANGED <<tello, snapOrdered, sent>>
           ELSE /\ tello' = IF valid THEN commandVelocity(command, tello) ELSE tello
                /\ calls' = (IF valid THEN commandCalls(command) ELSE <<>>)
                            \o (IF flush THEN takeAction(FALSE, HeavyMode, tello')
                                         ELSE <<>>)
                /\ sent' = lastSent(calls', sent)
                /\ snapOrdered' = IF valid /\ command = "p" THEN FALSE ELSE snapOrdered
                /\ now' = t
                /\ called' = IF flush THEN "takeAction" ELSE "calculateAction"
                /\ pc' = back
                /\ UNCHANGED <<ret, panoramaOrdered, panoramaDeg,
                               totalPanoramaCaptures, HeavyMode, degree, panoVars>>

\* getKeyboardInput() at time now + d, then calculateAction of the key it returns
Observe(wk, pressed, d, flush, back) ==
    LET k == getKeyboardInput(wk, pressed)
        t == now + d
        stack2 == updateActionTrack(k, ActionStack, t)
    IN  /\ ticks' = ticks + 1
        /\ ActionStack' = stack2
        /\ validLog' = IF k # None
                       THEN Append(validLog, checkValidCommand(k, stack2))
                       ELSE validLog
        /\ calculateAction(k, stack2, t, flush, back)

\* main.py: one iteration of the loop when 'q' is not seen
Iteration(wk1, wk2, pressed, d) ==
    /\ pc = "poll"
    /\ ticks < MaxTicks
    /\ ~((wk1 # 0) /\ ("q" \in pressed))
    /\ Observe(wk2, pressed, d, TRUE, "poll")

\* main.py: 'q' is seen: takeAction(land=True), break, deinit()
Quit(wk1, pressed) ==
    /\ pc = "poll"
    /\ (wk1 # 0) /\ ("q" \in pressed)
    /\ tello' = setAllVelocity(0, tello)
    /\ calls' = takeAction(TRUE, HeavyMode, tello')
    /\ now' = now + SleepTotal(calls')
    /\ failed' = FALSE
    /\ called' = "takeAction"
    /\ pc' = "done"
    /\ UNCHANGED <<ret, ticks, logVars, flagVars, panoVars, sent>>

\* the loop leaving the panorama when the device rejects the rotation
PanoStep_Abort(ok) ==
    /\ pc = "pano"
    /\ pano_i < pano_n - 1
    /\ tello' = setAllVelocity(0, tello)
    /\ calls' = calls \o rotate(pano_deg) \o (IF ok THEN takeSnap_("panoramas") ELSE <<>>)
    /\ failed' = (failed \/ ~ok)
    /\ pano_i' = pano_i + 1
    /\ now' = now + SleepTotal(rotate(pano_deg) \o takeSnap_("panoramas"))
    /\ pc' = IF ok THEN pc ELSE "done"
    /\ UNCHANGED <<ret, called, ticks, logVars, flagVars, pano_n, pano_deg, sent>>

\* the loop repeating a rotation the device rejected
PanoStep_Retry(ok) ==
    /\ pc = "pano"
    /\ pano_i < pano_n - 1
    /\ tello' = setAllVelocity(0, tello)
    /\ calls' = calls \o rotate(pano_deg) \o (IF ok THEN takeSnap_("panoramas") ELSE <<>>)
    /\ failed' = (failed \/ ~ok)
    /\ pano_i' = IF ok \/ failed THEN pano_i + 1 ELSE pano_i
    /\ now' = now + SleepTotal(rotate(pano_deg) \o takeSnap_("panoramas"))
    /\ UNCHANGED <<pc, ret, called, ticks, logVars, flagVars, pano_n, pano_deg, sent>>

\* capturePanorama_: one pass of the loop, rotate(deg_to_rotate) then takeSnap_
PanoStep(ok) ==
    /\ pc = "pano"
    /\ pano_i < pano_n - 1
    /\ tello' = setAllVelocity(0, tello)
    /\ calls' = calls \o rotate(pano_deg) \o takeSnap_("panoramas")
    /\ failed' = (failed \/ ~ok)
    /\ pano_i' = pano_i + 1
    /\ now' = now + SleepTotal(rotate(pano_deg) \o takeSnap_("panoramas"))
    /\ UNCHANGED <<pc, ret, called, ticks, logVars, flagVars, pano_n, pano_deg, sent>>

\* capturePanorama_: after the loop, rotate(-(n - 1) * deg_to_rotate), return
PanoReturn(ok) ==
    /\ pc = "pano"
    /\ ~(pano_i < pano_n - 1)
    /\ LET degrees == -(pano_n - 1) * pano_deg
       IN  /\ tello' = setAllVelocity(0, tello)
           /\ calls' = calls \o rotate(degrees)
           /\ failed' = (failed \/ ~ok)
           /\ now' = now + SleepTotal(rotate(degrees))
    /\ pc' = Head(ret)
    /\ ret' = Tail(ret)
    /\ UNCHANGED <<called, ticks, logVars, flagVars, panoVars, sent>>

\* an exit of capturePanorama that leaves the count of captures
PanoExit_KeepsCount ==
    /\ pc = "exit"
    /\ HeavyMode' = FALSE
    /\ panoramaOrdered' = FALSE
    /\ pc' = Head(ret)
    /\ ret' = Tail(ret)
    /\ UNCHANGED <<called, degree, ticks, now, logVars, tello, snapOrdered,
                   panoramaDeg, totalPanoramaCaptures, panoVars, calls, sent, failed>>

\* capturePanorama: after capturePanorama_ returned
PanoExit ==
    /\ pc = "exit"
    /\ totalPanoramaCaptures' = 0
    /\ HeavyMode' = FALSE
    /\ panoramaOrdered' = FALSE
    /\ pc' = Head(ret)
    /\ ret' = Tail(ret)
    /\ UNCHANGED <<called, degree, ticks, now, logVars, tello, snapOrdered,
                   panoramaDeg, panoVars, calls, sent, failed>>

\* main.py: takeAction() of the iteration whose calculateAction ran a panorama
Flush ==
    /\ pc = "flush"
    /\ calls' = calls \o takeAction(FALSE, HeavyMode, tello)
    /\ sent' = lastSent(calls', sent)
    /\ called' = "takeAction"
    /\ pc' = Head(ret)
    /\ ret' = Tail(ret)
    /\ UNCHANGED <<ticks, now, logVars, tello, flagVars, panoVars, failed>>

Next ==
    \/ \E pressed \in PressedSets, d \in Deltas :
         \* cv2.waitKey's result is read only beside is_pressed('q') and ("s")
         \E wk1 \in (IF "q" \in pressed THEN WaitKeys ELSE {-1}),
            wk2 \in (IF "s" \in pressed THEN WaitKeys ELSE {-1}) :
           Iteration(wk1, wk2, pressed, d)
    \/ \E wk1 \in WaitKeys, pressed \in PressedSets : Quit(wk1, pressed)
    \/ \E ok \in BOOLEAN : PanoStep(ok)
    \/ \E ok \in BOOLEAN : PanoReturn(ok)
    \/ PanoExit
    \/ Flush

Spec == Init /\ [][Next]_vars

\* a panorama in progress runs on: every device call returns, every sleep ends
PanoramaRuns ==
    \/ \E ok \in BOOLEAN : PanoStep(ok)
    \/ \E ok \in BOOLEAN : PanoReturn(ok)
    \/ PanoExit
    \/ Flush

----------------------------------------------------------------------------
(* The methods called one by one.  takeAction may also be asked for while  *)
(* a panorama is in progress.                                              *)

TestObserve(wk, pressed, d) ==
    /\ pc = "test"
    /\ ticks < MaxCalls
    /\ Observe(wk, pressed, d, FALSE, "test")

\* calculateAction(command) called directly: nothing is logged
TestCalculateAction(command) ==
    /\ pc = "test"
    /\ ticks < MaxCalls
    /\ ticks' = ticks + 1
    /\ calculateAction(command, ActionStack, now, FALSE, "test")
    /\ UNCHANGED <<ActionStack, validLog>>

\* a snapshot is requested: snapOrdered = True
TestOrderSnap ==
    /\ pc = "test"
    /\ ~snapOrdered
    /\ snapOrdered' = TRUE
    /\ called' = "snapOrdered"
    /\ UNCHANGED <<pc, ret, ticks, now, logVars, tello, panoramaOrdered, panoramaDeg,
                   totalPanoramaCaptures, HeavyMode, degree, panoVars, calls, sent,
                   failed>>

\* takeSnap() called directly: the check of the flag
TestTakeSnap ==
    /\ pc = "test"
    /\ ticks < MaxCalls
    /\ ticks' = ticks + 1
    /\ calls' = calls \o takeSnap(snapOrdered, "snaps")
    /\ snapOrdered' = FALSE
    /\ called' = "takeSnap"
    /\ UNCHANGED <<pc, ret, now, logVars, tello, panoramaOrdered, panoramaDeg,
                   totalPanoramaCaptures, HeavyMode, degree, panoVars, sent, failed>>

TestTakeAction(land) ==
    /\ pc \in {"test", "pano", "exit"}
    /\ ticks < MaxCalls
    /\ ticks' = ticks + 1
    /\ tello' = IF land THEN setAllVelocity(0, tello) ELSE tello
    /\ calls' = calls \o takeAction(land, HeavyMode, tello')
    /\ sent' = lastSent(calls', sent)
    /\ now' = now + SleepTotal(takeAction(land, HeavyMode, tello'))
    /\ called' = "takeAction"
    /\ UNCHANGED <<pc, ret, logVars, flagVars, panoVars, failed>>

TestCapturePanorama(dg) ==
    /\ pc = "test"
    /\ ticks < MaxCalls
    /\ ticks' = ticks + 1
    /\ capturePanorama(dg, <<"test">>)
    /\ called' = "capturePanorama"
    /\ now' = now + SleepTotal(calls')
    /\ failed' = FALSE
    /\ UNCHANGED <<logVars, tello, snapOrdered, sent>>

TestCapturePanorama_(deg_to_rotate, n) ==
    /\ pc = "test"
    /\ ticks < MaxCalls
    /\ ticks' = ticks + 1
    /\ capturePanorama_(deg_to_rotate, n, <<"test">>)
    /\ called' = "capturePanorama_"
    /\ now' = now + SleepTotal(calls')
    /\ failed' = FALSE
    /\ UNCHANGED <<logVars, tello, flagVars, sent>>

NextAPI ==
    \/ \E wk \in WaitKeys, pressed \in PressedSets, d \in Deltas :
           TestObserve(wk, pressed, d)
    \/ \E land \in BOOLEAN : TestTakeAction(land)
    \/ \E dg \in Degrees : TestCapturePanorama(dg)
    \/ \E deg_to_rotate \in StepAngles, n \in 1..MaxN :
           TestCapturePanorama_(deg_to_rotate, n)
    \/ \E ok \in BOOLEAN : PanoStep(ok)
    \/ \E ok \in BOOLEAN : PanoReturn(ok)
    \/ PanoExit

SpecAPI == InitAPI /\ [][NextAPI]_vars

FairSpecAPI == SpecAPI /\ WF_vars(PanoramaRuns)

\* the object driven by key observations, by direct calls of calculateAction
\* and of takeSnap, and by requests of a snapshot
NextDirect ==
    \/ \E wk \in WaitKeys, pressed \in PressedSets, d \in Deltas :
           TestObserve(wk, pressed, d)
    \/ \E command \in Commands : TestCalculateAction(command)
    \/ TestOrderSnap
    \/ TestTakeSnap
    \/ \E ok \in BOOLEAN : PanoStep(ok)
    \/ \E ok \in BOOLEAN : PanoReturn(ok)
    \/ PanoExit

SpecDirect == InitAPI /\ [][NextDirect]_vars

----------------------------------------------------------------------------
(* The count of captures on its own: the object with panoramaDeg and FOV
   set to any totalDegrees >= 0 and fieldOfView > 0. The field of view is
   kept in pano_deg, the deg_to_rotate that capturePanorama takes from FOV. *)

InitCount ==
    /\ pc = "count"
    /\ panoramaDeg \in 0..MaxDegrees
    /\ pano_deg \in 1..MaxFOV
    /\ ret = <<>>
    /\ called = "init"
    /\ degree = None
    /\ ticks = 0
    /\ now = 0
    /\ ActionStack = <<>>
    /\ validLog = <<>>
    /\ valid_command = TRUE
    /\ key = None
    /\ tello = setAllVelocity(0, <<>>)
    /\ snapOrdered = FALSE
    /\ panoramaOrdered = FALSE
    /\ totalPanoramaCaptures = 0
    /\ HeavyMode = FALSE
    /\ pano_n = 0
    /\ pano_i = 0
    /\ calls = <<>>
    /\ sent = <<0, 0, 0, 0>>
    /\ failed = FALSE

\* capturePanorama: the assignment of totalPanoramaCaptures
CountCaptures ==
    /\ pc = "count"
    /\ totalPanoramaCaptures' = captureCount(panoramaDeg, pano_deg)
    /\ pc' = "counted"
    /\ called' = "capturePanorama"
    /\ UNCHANGED <<ret, ticks, now, logVars, tello, snapOrdered, panoramaOrdered,
                   panoramaDeg, HeavyMode, degree, panoVars, calls, sent, failed>>

NextCount == CountCaptures

SpecCount == InitCount /\ [][NextCount]_vars

----------------------------------------------------------------------------
(* The action log: the i-th record against the one before it. *)

SameKey(i) == ActionStack[i][1] = ActionStack[i - 1][1]
Gap(i) == ActionStack[i][2] - ActionStack[i - 1][2]
RapidRepeat(i) == i >= 2 /\ SameKey(i) /\ Gap(i) < 200
OnlyFlushes(cs) == \A k \in 1..Len(cs) : cs[k].op = "send_rc_control"

\* a step that logged a key which repeats the record before it within 200 ms
LoggedRapidRepeat ==
    /\ Len(ActionStack') = Len(ActionStack) + 1
    /\ Len(ActionStack') >= 2
    /\ ActionStack'[Len(ActionStack')][1] = ActionStack'[Len(ActionStack') - 1][1]
    /\ ActionStack'[Len(ActionStack')][2] - ActionStack'[Len(ActionStack') - 1][2] < 200

(* C1: of two consecutive identical key observations logged less than 200 ms
   apart, the second is rejected by checkValidCommand; the iteration that
   observed it leaves the velocity axes, the flags and the velocity sent to the
   device as they were and makes no device call but the flush, and the
   observation is still appended to ActionStack. *)
C1_RapidRepeatRejected ==
    /\ [](\A i \in 2..Len(ActionStack) : RapidRepeat(i) => ~validLog[i])
    /\ [][LoggedRapidRepeat =>
            /\ ~valid_command'
            /\ SubSeq(ActionStack', 1, Len(ActionStack)) = ActionStack
            /\ tello' = tello
            /\ flagVars' = flagVars
            /\ sent' = sent
            /\ OnlyFlushes(calls')]_vars

C1_Witness ==
    /\ pc = "poll"
    /\ Len(ActionStack) = 2
    /\ ActionStack[1][1] = "w" /\ ActionStack[2][1] = "w"
    /\ Gap(2) = 100
    /\ validLog = <<TRUE, FALSE>>
    /\ tello.front_back_velocity = 60

(* C2 as stated: of two consecutive identical key observations logged 200 ms
   or more apart, both are accepted, whatever was logged before the pair. *)
C2_BothAcceptedAlways ==
    \A i \in 2..Len(ActionStack) :
        (SameKey(i) /\ Gap(i) >= 200) => (validLog[i - 1] /\ validLog[i])

(* C2 as amended: of two consecutive identical key observations logged 200 ms
   or more apart, the second is accepted whatever was logged before the pair;
   the first is accepted unless it repeats the record before it within 200 ms
   (so both are accepted when the pair is the first two records). *)
C2_SlowRepeatAccepted ==
    \A i \in 2..Len(ActionStack) :
        (SameKey(i) /\ Gap(i) >= 200) =>
            (validLog[i] /\ (validLog[i - 1] <=> ~RapidRepeat(i - 1)))

C2_Witness ==
    /\ Len(ActionStack) = 3
    /\ SameKey(2) /\ Gap(2) = 100
    /\ SameKey(3) /\ Gap(3) = 200
    /\ validLog = <<TRUE, FALSE, TRUE>>

(* C3 as stated: of two consecutive key observations with differing keys, both
   are accepted, whatever their timestamps and whatever was logged before. *)
C3_BothAcceptedAlways ==
    \A i \in 2..Len(ActionStack) :
        ~SameKey(i) => (validLog[i - 1] /\ validLog[i])

(* C3 as amended: of two consecutive key observations with differing keys, the
   second is accepted whatever the timestamps and whatever was logged before;
   the first is accepted unless it repeats the record before it within 200 ms. *)
C3_DifferentKeyAccepted ==
    \A i \in 2..Len(ActionStack) :
        ~SameKey(i) => (validLog[i] /\ (validLog[i - 1] <=> ~RapidRepeat(i - 1)))

C3_Witness ==
    /\ Len(ActionStack) = 3
    /\ SameKey(2) /\ Gap(2) = 100
    /\ ~SameKey(3) /\ Gap(3) = 100
    /\ validLog = <<TRUE, FALSE, TRUE>>

(* C4 as stated: the first two commands logged after start-up are always
   accepted, the same key logged twice within 200 ms included. *)
C4_FirstTwoAccepted ==
    Len(ActionStack) >= 2 => (validLog[1] /\ validLog[2])

(* C4 as amended: the first command logged after start-up is always accepted;
   the second is accepted unless it has the key of the first and is logged less
   than 200 ms after it, in which case it is rejected. *)
C4_FirstAcceptedSecondDebounced ==
    /\ Len(ActionStack) >= 1 => validLog[1]
    /\ Len(ActionStack) >= 2 => (validLog[2] <=> ~(SameKey(2) /\ Gap(2) < 200))

C4_Witness ==
    /\ Len(ActionStack) = 2
    /\ SameKey(2) /\ Gap(2) < 200
    /\ validLog = <<TRUE, FALSE>>

NonZeroAxes ==
    {a \in {"front_back_velocity", "left_right_velocity", "up_down_velocity",
            "yaw_velocity"} : tello[a] # 0}

(* C5 as stated: in every reachable state of the control loop at most one of
   the four velocity axes is non-zero. *)
C5_AtMostOneAxis == Cardinality(NonZeroAxes) <= 1

----------------------------------------------------------------------------
(* The captures and rotations of a panorama among the calls. *)

IsCapture(c) == c.op = "imwrite" /\ c.folder = "panoramas"
IsRotation(c) == c.op \in {"rotate_counter_clockwise", "rotate_clockwise"}
IsPanoCall(c) == IsCapture(c) \/ IsRotation(c)
IsFlush(c) == c.op = "send_rc_control"
PanoCalls(cs) == SelectSeq(cs, IsPanoCall)
Captures(cs) == Len(SelectSeq(cs, IsCapture))
Rotations(cs) == Len(SelectSeq(cs, IsRotation))
Capture == [op |-> "imwrite", args |-> <<>>, folder |-> "panoramas"]
CounterClockwise(x) == [op |-> "rotate_counter_clockwise", args |-> <<x>>, folder |-> ""]
Clockwise(x) == [op |-> "rotate_clockwise", args |-> <<x>>, folder |-> ""]

\* a capture, then k times (rotate by +s counter-clockwise, capture)
RECURSIVE ExpectedSteps(_, _)
ExpectedSteps(s, k) ==
    IF k = 0 THEN <<Capture>>
    ELSE ExpectedSteps(s, k - 1) \o <<CounterClockwise(s), Capture>>

\* the heading change asked of the device, counter-clockwise positive
RECURSIVE NetHeading(_)
NetHeading(cs) ==
    IF cs = <<>> THEN 0
    ELSE (CASE Head(cs).op = "rotate_counter_clockwise" -> Head(cs).args[1]
            [] Head(cs).op = "rotate_clockwise" -> -Head(cs).args[1]
            [] OTHER -> 0) + NetHeading(Tail(cs))

\* capturePanorama_ has returned and its calls are still the latest
PanoFinished == pc # "pano" /\ calls # <<>> /\ calls[1] = Capture

(* C6: while HeavyMode is set no send_rc_control call is issued: none is among
   the calls made since capturePanorama set it, and a takeAction() asked for
   meanwhile makes no call and changes nothing of the velocities. *)
C6_NoFlushDuringPanorama ==
    /\ [](HeavyMode => \A k \in 1..Len(calls) : ~IsFlush(calls[k]))
    /\ [][(HeavyMode /\ TestTakeAction(FALSE)) =>
            (calls' = calls /\ sent' = sent /\ tello' = tello)]_vars

C6_Witness ==
    /\ HeavyMode
    /\ pc = "pano"
    /\ pano_i >= 1
    /\ called = "takeAction"
    /\ Captures(calls) = pano_i + 1
    /\ \A k \in 1..Len(calls) : calls[k].op # "land"

(* C7: every panorama that is entered reaches its exit, where HeavyMode and
   panoramaOrdered are False and totalPanoramaCaptures is 0, also when the
   device rejected rotations on the way. *)
C7_PanoramaAlwaysExits ==
    HeavyMode ~> (/\ pc = "test"
                  /\ ~HeavyMode
                  /\ ~panoramaOrdered
                  /\ totalPanoramaCaptures = 0)

C7_Witness ==
    /\ pc = "test"
    /\ PanoFinished
    /\ degree = "C"
    /\ failed
    /\ Captures(calls) = 7
    /\ ~HeavyMode /\ ~panoramaOrdered /\ totalPanoramaCaptures = 0

(* C8: a rejected rotation is neither retried nor does it end the sequence:
   after i passes of the loop there are i + 1 captures and i rotations, after
   the return n captures and n rotations, a capture and a rotation in turn,
   whether rotations were rejected or not. *)
C8_FailureChangesNoStep ==
    /\ pc = "pano" =>
          (Captures(calls) = pano_i + 1 /\ Rotations(calls) = pano_i)
    /\ PanoFinished =>
          (Captures(calls) = pano_n /\ Rotations(calls) = pano_n)
    /\ (pc = "pano" \/ PanoFinished) =>
          \A k \in 1..Len(PanoCalls(calls)) :
              IsCapture(PanoCalls(calls)[k]) <=> (k % 2 = 1)

C8_Witness ==
    /\ PanoFinished
    /\ failed
    /\ pano_n >= 2
    /\ Rotations(calls) = pano_n

(* C9: with FOV = 30, capturePanorama("C") makes exactly 7 captures and 6
   rotations of +30 and then one rotation of -180; capturePanorama("O") makes
   exactly 13 captures and 12 rotations of +30 and then one rotation of -360. *)
C9_PanoramaScenarios ==
    /\ (pc = "exit" /\ degree = "C") =>
          /\ Captures(calls) = 7
          /\ Rotations(calls) = 6 + 1
          /\ PanoCalls(calls) = ExpectedSteps(30, 6) \o <<Clockwise(180)>>
    /\ (pc = "exit" /\ degree = "O") =>
          /\ Captures(calls) = 13
          /\ Rotations(calls) = 12 + 1
          /\ PanoCalls(calls) = ExpectedSteps(30, 12) \o <<Clockwise(360)>>

C9_Witness ==
    /\ pc = "exit"
    /\ degree = "O"
    /\ Captures(calls) = 13
    /\ PanoCalls(calls)[Len(PanoCalls(calls))] = Clockwise(360)

(* C10 as stated: for every n >= 1 and s > 0 the sequence ends with one
   corrective rotation issued via the clockwise device call with magnitude
   (n - 1) * s. *)
C10_ReturnIsClockwise ==
    PanoFinished =>
        PanoCalls(calls)[Len(PanoCalls(calls))] = Clockwise((pano_n - 1) * pano_deg)

(* C10 as amended: for every n >= 1 and s > 0 the sequence is a capture, then
   n - 1 times (rotate by +s via the counter-clockwise call, capture), then one
   corrective rotation of -(n - 1) * s: via the clockwise call with magnitude
   (n - 1) * s when n >= 2, via the counter-clockwise call with 0 when n = 1;
   when no rotation was rejected the net heading change is zero. *)
C10_PanoramaStepOrder ==
    /\ pc = "pano" => PanoCalls(calls) = ExpectedSteps(pano_deg, pano_i)
    /\ PanoFinished =>
          /\ PanoCalls(calls) =
                ExpectedSteps(pano_deg, pano_n - 1)
                   \o <<IF pano_n >= 2 THEN Clockwise((pano_n - 1) * pano_deg)
                                       ELSE CounterClockwise(0)>>
          /\ ~failed => NetHeading(calls) = 0

C10_Witness ==
    /\ PanoFinished
    /\ called = "capturePanorama_"
    /\ pano_n = 3
    /\ pano_deg = 45
    /\ ~failed
    /\ PanoCalls(calls)[Len(PanoCalls(calls))] = Clockwise(90)

\* C11: for every totalDegrees >= 0 and fieldOfView > 0 the count of captures
\* is max(floor(d/f), floor(d/f) + 1), with floor(d/f) the q such that
\* q*f <= d < (q+1)*f; it is never zero, also when d < f, and it is d/f
\* rounded up whenever d is not a multiple of f.
C11_CountFormula ==
    pc = "counted" =>
        LET d == panoramaDeg
            f == pano_deg
            n == totalPanoramaCaptures
            q == CHOOSE x \in 0..d : x * f <= d /\ d < (x + 1) * f
        IN  /\ n = Max(q, q + 1)
            /\ n # 0
            /\ (d % f # 0) => ((n - 1) * f < d /\ d <= n * f)

\* a count for fewer degrees than one field of view
C11_Witness ==
    /\ pc = "counted"
    /\ 0 < panoramaDeg
    /\ panoramaDeg < pano_deg
    /\ totalPanoramaCaptures = 1

\* the writes of a snapshot among the calls cs
SnapWrites(cs) == Len(SelectSeq(cs, LAMBDA x : x = Imwrite("snaps")))

\* C12: a check of the flag by takeSnap writes one file and clears snapOrdered
\* when a snapshot is requested, and writes nothing when none is; the request
\* made by an accepted 'p' is served by exactly one write, so a request
\* followed by two or more checks gives exactly one write.
C12_OneWritePerRequest ==
    [][/\ (called' = "takeSnap" /\ ticks' = ticks + 1 /\ snapOrdered) =>
            (calls' = Append(calls, Imwrite("snaps")) /\ ~snapOrdered')
       /\ (called' = "takeSnap" /\ ticks' = ticks + 1 /\ ~snapOrdered) =>
            (calls' = calls /\ ~snapOrdered')
       /\ (called' = "calculateAction" /\ ticks' = ticks + 1 /\ key' = "p"
             /\ valid_command') =>
            (SnapWrites(calls') = 1 /\ ~snapOrdered')]_vars

\* an accepted 'p' and then one more check by takeSnap: one write
C12_Witness ==
    /\ called = "takeSnap"
    /\ key = "p"
    /\ valid_command
    /\ ticks = 2
    /\ ~snapOrdered
    /\ SnapWrites(calls) = 1

\* C13: the log is append-only: an iteration that observes a key appends
\* exactly one record (key, time of the observation), whether the key is then
\* judged valid or not; every other step, an iteration with no key included,
\* leaves the log as it is; so every earlier log is a prefix of every later one.
C13_LogAppendOnly ==
    [][IF ticks' = ticks + 1 /\ key' # None
       THEN /\ Len(ActionStack') = Len(ActionStack) + 1
            /\ SubSeq(ActionStack', 1, Len(ActionStack)) = ActionStack
            /\ ActionStack'[Len(ActionStack')][1] = key'
            /\ ActionStack'[Len(ActionStack')][2] \in {now + d : d \in Deltas}
       ELSE ActionStack' = ActionStack]_vars

\* a rejected key that is in the log all the same, then an iteration with no key
C13_Witness ==
    /\ pc = "poll"
    /\ ticks = 3
    /\ key = None
    /\ Len(ActionStack) = 2
    /\ validLog = <<TRUE, FALSE>>

\* C14: an observation of no key is valid whatever the last two records of the
\* log are, and after calculateAction(None) the four axes and speed are zero.
C14_NoneValidAndZero ==
    /\ checkValidCommand(None, ActionStack)
    /\ (key = None /\ ticks > 0) =>
           (valid_command /\ NonZeroAxes = {} /\ tello.speed = 0)

\* no key after a key was repeated within 200 ms: the log ends with a pair
\* that rejects every key
C14_Witness ==
    /\ pc = "poll"
    /\ key = None
    /\ Len(ActionStack) >= 2
    /\ RapidRepeat(Len(ActionStack))
    /\ ~checkValidCommand("w", ActionStack)
    /\ valid_command
    /\ NonZeroAxes = {}

MotionKeys == {"w", "z", "a", "d", "up", "down", "left", "right"}
MotionAxis(k) ==
    CASE k \in {"w", "z"}        -> "front_back_velocity"
      [] k \in {"a", "d"}        -> "left_right_velocity"
      [] k \in {"up", "down"}    -> "up_down_velocity"
      [] k \in {"left", "right"} -> "yaw_velocity"
MotionSign(k) == IF k \in {"w", "d", "up", "right"} THEN 1 ELSE -1

\* C15: calculateAction of an accepted motion key sets the axis of the key to
\* 60 with the sign of the direction and leaves the other three axes, speed,
\* snapOrdered, HeavyMode and the log as they are: a direct call changes no
\* record, and after a key observation the log holds only the record that
\* getKeyboardInput appended before the call.
C15_MotionSetsOneAxis ==
    [][(ticks' = ticks + 1 /\ called' = "calculateAction" /\ key' \in MotionKeys
         /\ valid_command') =>
          /\ tello' = [tello EXCEPT ![MotionAxis(key')] = MotionSign(key') * 60]
          /\ snapOrdered' = snapOrdered
          /\ HeavyMode' = HeavyMode
          /\ (now' = now) => (ActionStack' = ActionStack)
          /\ (now' # now) => (ActionStack' = Append(ActionStack, <<key', now'>>))]_vars

\* 'w' observed, then calculateAction("a") called directly: the axis of 'w' is
\* left as it was and the log holds the record of 'w' alone
C15_Witness ==
    /\ called = "calculateAction"
    /\ key = "a"
    /\ valid_command
    /\ Len(ActionStack) = 1
    /\ ActionStack[1][1] = "w"
    /\ tello.front_back_velocity = 60
    /\ tello.left_right_velocity = -60

\* C16: takeAction(land=True) zeroes the velocities, then makes one land
\* request, then waits one second, in that order and with nothing else, whether
\* HeavyMode is set or not; it sends no send_rc_control.
C16_LandSequence ==
    [][TestTakeAction(TRUE) =>
          /\ calls' = calls \o <<SetAll(0), Call("land", <<>>), Sleep(1000)>>
          /\ \A a \in {"front_back_velocity", "left_right_velocity",
                        "up_down_velocity", "yaw_velocity", "speed"} : tello'[a] = 0
          /\ sent' = sent
          /\ now' = now + 1000]_vars

\* a landing in the middle of a panorama that the key 'c' started
C16_Witness ==
    /\ called = "takeAction"
    /\ HeavyMode
    /\ pc = "pano"
    /\ ActionStack # <<>>
    /\ Len(calls) >= 3
    /\ SubSeq(calls, Len(calls) - 2, Len(calls))
          = <<SetAll(0), Call("land", <<>>), Sleep(1000)>>
    /\ NonZeroAxes = {}

\* the takeoff requests among the calls cs
Takeoffs(cs) == Len(SelectSeq(cs, LAMBDA x : x.op = "takeoff"))

\* C17: an iteration of the loop with an accepted 's' makes exactly one takeoff
\* request and leaves the four axes and speed as they were.
C17_TakeoffLeavesVelocity ==
    [][(ticks' = ticks + 1 /\ key' = "s" /\ valid_command') =>
          (Takeoffs(calls') = 1 /\ tello' = tello)]_vars

\* a takeoff while the velocity of an earlier 'w' is armed
C17_Witness ==
    /\ pc = "poll"
    /\ key = "s"
    /\ valid_command
    /\ Takeoffs(calls) = 1
    /\ tello.front_back_velocity = 60

\* C18 as stated: an iteration of the loop in which the key 'o' is pressed
\* starts a panorama of 360 degrees: capturePanorama("O") is called and
\* panoramaDeg is 360.
C18_OKeyStartsPanorama ==
    [][\A d \in Deltas :
          Iteration(-1, -1, {"o"}, d) =>
              (HeavyMode' /\ degree' = "O" /\ panoramaDeg' = 360)]_vars

\* C19 as stated: whenever a panorama is under way, from the moment
\* capturePanorama sets HeavyMode, the velocity sent last by send_rc_control
\* is zero on all four axes.
C19_PanoramaStartsAtRest == HeavyMode => sent = <<0, 0, 0, 0>>

\* C20: at every poll of the keyboard the flags are idle: HeavyMode,
\* panoramaOrdered and snapOrdered are False and totalPanoramaCaptures is 0;
\* HeavyMode is True only inside capturePanorama; once a panorama is completed
\* the four velocity attributes are zero.
C20_IdleAtPoll ==
    /\ pc = "poll" =>
          (~HeavyMode /\ ~panoramaOrdered /\ ~snapOrdered
             /\ totalPanoramaCaptures = 0)
    /\ HeavyMode => pc \in {"pano", "exit"}
    /\ PanoFinished => NonZeroAxes = {}

\* the poll after 'w' and then 'c': the panorama is over and flushed
C20_Witness ==
    /\ pc = "poll"
    /\ PanoFinished
    /\ key = "c"
    /\ Len(ActionStack) = 2
    /\ ActionStack[1][1] = "w"
    /\ ~HeavyMode
    /\ NonZeroAxes = {}
    /\ sent = <<0, 0, 0, 0>>

============================================================================
